---------------------------- MODULE Spec2Model ----------------------------
(***************************************************************************)
(* Open-transaction lock script (c/open_transaction.c).                    *)
(*                                                                         *)
(* The verifier is modelled as a state machine over main()'s loops: one    *)
(* action per loop iteration or straight-line block.  The byte stream      *)
(* absorbed by the blake2b session is kept as the sequence ctx.  The host  *)
(* (CKB syscalls), the molecule readers and the hash / signature           *)
(* primitives are libraries the file includes; they are modelled by what   *)
(* they return to the call sites.                                          *)
(***************************************************************************)
EXTENDS Integers, Sequences, FiniteSets, TLC

\* ------------------------------------------------------------------------
\* Program constants (open_transaction.c, lines 12-65)
\* ------------------------------------------------------------------------
BLAKE2B_BLOCK_SIZE == 32
BLAKE160_SIZE == 20
PUBKEY_SIZE == 33
RECID_INDEX == 64
SIGNATURE_SIZE == 65
INPUT_SIZE == 4096

\* The three buffers below are scaled down from 32768 / 32768 / 16384 so that
\* objects larger than a buffer, and objects streamed in several batches,
\* occur with byte strings of a few dozen bytes.
WITNESS_SIZE == 160
SCRIPT_SIZE == 96
ONE_BATCH_SIZE == 16

ERROR_ARGUMENTS_LEN == -1
ERROR_ENCODING == -2
ERROR_SYSCALL == -3
ERROR_SECP_RECOVER_PUBKEY == -11
ERROR_SECP_PARSE_SIGNATURE == -14
ERROR_SECP_SERIALIZE_PUBKEY == -15
ERROR_SCRIPT_TOO_LONG == -21
ERROR_WITNESS_SIZE == -22
ERROR_PUBKEY_BLAKE160_HASH == -31
ERROR_INVALID_LABEL == -50

LABEL_SIGHASH_ALL == 0
LABEL_END_OF_LIST == 15
LABEL_OUTPUT == 1
LABEL_INPUT_CELL == 2
LABEL_INPUT_CELL_SINCE == 3
LABEL_INPUT_OUTPOINT == 4

MASK_CELL_CAPACITY == 1
MASK_CELL_TYPE_CODE_HASH == 2
MASK_CELL_TYPE_ARGS == 4
MASK_CELL_TYPE_HASH_TYPE == 8
MASK_CELL_LOCK_CODE_HASH == 16
MASK_CELL_LOCK_ARGS == 32
MASK_CELL_LOCK_HASH_TYPE == 64
MASK_CELL_DATA == 128
MASK_CELL_ALL == 255
MASK_CELL_ANY_TYPE == {MASK_CELL_TYPE_CODE_HASH, MASK_CELL_TYPE_ARGS, MASK_CELL_TYPE_HASH_TYPE}
MASK_CELL_ANY_LOCK == {MASK_CELL_LOCK_CODE_HASH, MASK_CELL_LOCK_ARGS, MASK_CELL_LOCK_HASH_TYPE}

MASK_OUTPOINT_TX_HASH == 1
MASK_OUTPOINT_INDEX == 2
MASK_OUTPOINT_SINCE == 4
MASK_OUTPOINT_ALL == 255

\* Host return codes and selectors used at the call sites.
CKB_SUCCESS == 0
CKB_INDEX_OUT_OF_BOUND == 1
CKB_ITEM_MISSING == 2
CKB_LENGTH_NOT_ENOUGH == 3
CKB_SOURCE_INPUT == 1
CKB_SOURCE_OUTPUT == 2
CKB_SOURCE_GROUP_INPUT == 257
CKB_CELL_FIELD_CAPACITY == 0
CKB_CELL_FIELD_LOCK == 2
CKB_CELL_FIELD_TYPE == 4
CKB_INPUT_FIELD_OUT_POINT == 0
CKB_INPUT_FIELD_SINCE == 1

\* The machine stops the script when it dereferences an address outside its
\* memory; no exit code of the script has this value.
VM_MEMORY_FAULT == 255

\* ------------------------------------------------------------------------
\* Bytes
\* ------------------------------------------------------------------------
Min(a, b) == IF a < b THEN a ELSE b

Rep(b, n) == [k \in 1..n |-> b]

\* n as w little-endian bytes
RECURSIVE LE(_, _)
LE(n, w) == IF w = 0 THEN <<>> ELSE <<n % 256>> \o LE(n \div 256, w - 1)

\* `len` bytes of s from 0-based offset `off`
Slice(s, off, len) == SubSeq(s, off + 1, off + len)

\* 4-byte little-endian number at 0-based offset `off` (mol_unpack_number)
Unpack(s, off) == s[off + 1] + 256 * s[off + 2] + 65536 * s[off + 3] + 16777216 * s[off + 4]

RECURSIVE Flatten(_)
Flatten(ss) == IF ss = <<>> THEN <<>> ELSE Head(ss) \o Flatten(Tail(ss))

RECURSIVE SumBytes(_)
SumBytes(s) ==
  IF Len(s) = 0 THEN 0
  ELSE IF Len(s) = 1 THEN s[1]
  ELSE SumBytes(SubSeq(s, 1, Len(s) \div 2)) + SumBytes(SubSeq(s, Len(s) \div 2 + 1, Len(s)))

IsPrefix(p, s) == Len(p) <= Len(s) /\ SubSeq(s, 1, Len(p)) = p

\* bit test on a byte: (m & bit) != 0, bit a power of two
Bit(m, bit) == (m \div bit) % 2 = 1

\* m ^ bit
Toggle(m, bit) == IF Bit(m, bit) THEN m - bit ELSE m + bit

\* ------------------------------------------------------------------------
\* Wire formats produced by the host (molecule)
\* ------------------------------------------------------------------------
NoScript == [none |-> TRUE]

\* a molecule table: total size, one offset per field, then the fields
MolTable(fields) ==
  LET n == Len(fields)
      hdr == 4 * (n + 1)
      off[k \in 1..n] == IF k = 1 THEN hdr ELSE off[k - 1] + Len(fields[k - 1])
      total == hdr + Len(Flatten(fields))
  IN LE(total, 4) \o Flatten([k \in 1..n |-> LE(off[k], 4)]) \o Flatten(fields)

\* molecule Bytes: 4-byte item count, then the items
MolBytes(b) == LE(Len(b), 4) \o b

SerScript(s) == MolTable(<<s.code_hash, s.hash_type, MolBytes(s.args)>>)

SerScriptOpt(s) == IF s = NoScript THEN <<>> ELSE SerScript(s)

SerCellOutput(c) == MolTable(<<c.capacity, SerScript(c.lock), SerScriptOpt(c.type)>>)

SerOutPoint(in) == in.tx_hash \o in.index

SerCellInput(in) == in.since \o SerOutPoint(in)

\* WitnessArgs; each argument is an already serialized BytesOpt
SerWitnessArgs(lock, input_type, output_type) == MolTable(<<lock, input_type, output_type>>)

\* ------------------------------------------------------------------------
\* Molecule readers (blockchain.h), on the bytes of a segment; a returned
\* segment is [ptr, size], ptr a 0-based offset into those bytes
\* ------------------------------------------------------------------------
MolFieldCount(b) == (Unpack(b, 4) \div 4) - 1

\* field k (0-based) of a table: mol_table_slice_by_index
MolTableSlice(b, k) ==
  LET start == Unpack(b, 4 * (k + 1))
      end == IF k + 1 = MolFieldCount(b) THEN Unpack(b, 0) ELSE Unpack(b, 4 * (k + 2))
  IN [ptr |-> start, size |-> end - start]

SegBytes(b, seg) == Slice(b, seg.ptr, seg.size)

\* header and offsets of a table with exactly n fields (compatible = false)
MolTableHeaderOk(b, n) ==
  /\ Len(b) >= 4
  /\ Len(b) = Unpack(b, 0)
  /\ Len(b) >= 8
  /\ Unpack(b, 4) % 4 = 0
  /\ Unpack(b, 4) >= 8
  /\ MolFieldCount(b) = n
  /\ Len(b) >= 4 * (n + 1)
  /\ \A k \in 1..n :
       Unpack(b, 4 * k) <= (IF k = n THEN Unpack(b, 0) ELSE Unpack(b, 4 * (k + 1)))

MolReader_Bytes_verify(b) == Len(b) >= 4 /\ Len(b) = 4 + Unpack(b, 0)

MolReader_BytesOpt_verify(b) == Len(b) = 0 \/ MolReader_Bytes_verify(b)

MolReader_WitnessArgs_verify(b) ==
  /\ MolTableHeaderOk(b, 3)
  /\ \A k \in 0..2 : MolReader_BytesOpt_verify(SegBytes(b, MolTableSlice(b, k)))

MolReader_WitnessArgs_get_lock(b) == MolTableSlice(b, 0)

MolReader_BytesOpt_is_none(seg) == seg.size = 0

\* the raw bytes of a Bytes segment of b: skip the 4-byte item count
MolReader_Bytes_raw_bytes(b, seg) == [ptr |-> seg.ptr + 4, size |-> Unpack(b, seg.ptr)]

MolReader_Script_verify(b) ==
  /\ MolTableHeaderOk(b, 3)
  /\ MolTableSlice(b, 0).size = 32
  /\ MolTableSlice(b, 1).size = 1
  /\ MolReader_Bytes_verify(SegBytes(b, MolTableSlice(b, 2)))

MolReader_Script_get_code_hash(b) == MolTableSlice(b, 0)

MolReader_Script_get_hash_type(b) == MolTableSlice(b, 1)

MolReader_Script_get_args(b) == MolTableSlice(b, 2)

MolReader_OutPoint_verify(b) == Len(b) = 36

MolReader_OutPoint_get_tx_hash(b) == [ptr |-> 0, size |-> 32]

\* ------------------------------------------------------------------------
\* The host: a transaction and the script being run.
\*   tx.inputs    : <<[since, tx_hash, index, cell]>>   cell: the spent cell
\*   tx.outputs   : <<[capacity, lock, type, data]>>
\*   tx.witnesses : <<bytes>>  (transaction-wide index)
\*   tx.tx_hash   : 32 bytes;  tx.script : the lock script being run
\* The script group is the inputs whose cell carries tx.script as its lock.
\* ------------------------------------------------------------------------
GroupIdx(tx) == SelectSeq([k \in 1..Len(tx.inputs) |-> k], LAMBDA k : tx.inputs[k].cell.lock = tx.script)

\* 1-based position of item `index` of `source`, 0 when out of bound
Resolve(tx, index, source) ==
  IF source = CKB_SOURCE_GROUP_INPUT
    THEN (IF index < Len(GroupIdx(tx)) THEN GroupIdx(tx)[index + 1] ELSE 0)
    ELSE IF source = CKB_SOURCE_INPUT
      THEN (IF index < Len(tx.inputs) THEN index + 1 ELSE 0)
      ELSE (IF index < Len(tx.outputs) THEN index + 1 ELSE 0)

CellAt(tx, k, source) == IF source = CKB_SOURCE_OUTPUT THEN tx.outputs[k] ELSE tx.inputs[k].cell

\* a partial load: the reported length is what is left from `offset`, the
\* bytes written are at most the buffer
HostStore(data, buflen, offset) ==
  LET left == IF offset < Len(data) THEN Len(data) - offset ELSE 0
  IN [ret |-> CKB_SUCCESS, len |-> left, data |-> Slice(data, offset, Min(buflen, left))]

HostFail(code) == [ret |-> code, len |-> 0, data |-> <<>>]

ckb_load_input(tx, buflen, offset, index, source) ==
  LET k == Resolve(tx, index, source)
  IN IF k = 0 THEN HostFail(CKB_INDEX_OUT_OF_BOUND)
     ELSE HostStore(SerCellInput(tx.inputs[k]), buflen, offset)

ckb_load_cell(tx, buflen, offset, index, source) ==
  LET k == Resolve(tx, index, source)
  IN IF k = 0 THEN HostFail(CKB_INDEX_OUT_OF_BOUND)
     ELSE HostStore(SerCellOutput(CellAt(tx, k, source)), buflen, offset)

ckb_load_cell_data(tx, buflen, offset, index, source) ==
  LET k == Resolve(tx, index, source)
  IN IF k = 0 THEN HostFail(CKB_INDEX_OUT_OF_BOUND)
     ELSE HostStore(CellAt(tx, k, source).data, buflen, offset)

ckb_load_cell_by_field(tx, buflen, offset, index, source, fld) ==
  LET k == Resolve(tx, index, source)
      c == CellAt(tx, k, source)
  IN IF k = 0 THEN HostFail(CKB_INDEX_OUT_OF_BOUND)
     ELSE IF fld = CKB_CELL_FIELD_CAPACITY THEN HostStore(c.capacity, buflen, offset)
     ELSE IF fld = CKB_CELL_FIELD_LOCK THEN HostStore(SerScript(c.lock), buflen, offset)
     ELSE IF c.type = NoScript THEN HostFail(CKB_ITEM_MISSING)
     ELSE HostStore(SerScript(c.type), buflen, offset)

\* ckb_checked_*: a load that does not fit the buffer is an error
Checked(r, buflen) == IF r.ret = CKB_SUCCESS /\ r.len > buflen THEN HostFail(CKB_LENGTH_NOT_ENOUGH) ELSE r

ckb_checked_load_cell_by_field(tx, buflen, offset, index, source, fld) ==
  Checked(ckb_load_cell_by_field(tx, buflen, offset, index, source, fld), buflen)

ckb_checked_load_input_by_field(tx, buflen, offset, index, source, fld) ==
  LET k == Resolve(tx, index, source)
  IN IF k = 0 THEN HostFail(CKB_INDEX_OUT_OF_BOUND)
     ELSE IF fld = CKB_INPUT_FIELD_SINCE THEN Checked(HostStore(tx.inputs[k].since, buflen, offset), buflen)
     ELSE Checked(HostStore(SerOutPoint(tx.inputs[k]), buflen, offset), buflen)

\* a witness is looked up in the transaction-wide list at the input's position
ckb_load_witness(tx, buflen, offset, index, source) ==
  LET k == IF source = CKB_SOURCE_GROUP_INPUT THEN Resolve(tx, index, source) ELSE index + 1
  IN IF k = 0 \/ k > Len(tx.witnesses) THEN HostFail(CKB_INDEX_OUT_OF_BOUND)
     ELSE HostStore(tx.witnesses[k], buflen, offset)

ckb_load_tx_hash(tx, buflen, offset) == HostStore(tx.tx_hash, buflen, offset)

ckb_load_script(tx, buflen, offset) == HostStore(SerScript(tx.script), buflen, offset)

ckb_calculate_inputs_len(tx) == Len(tx.inputs)

\* ------------------------------------------------------------------------
\* Streaming hasher.  A hashing helper returns [ret, out]: its return code
\* and the bytes it passed to blake2b_update, in order.
\* ------------------------------------------------------------------------
Load(f, tx, buflen, offset, index_code, source) ==
  IF f = "input" THEN ckb_load_input(tx, buflen, offset, index_code, source)
  ELSE IF f = "cell" THEN ckb_load_cell(tx, buflen, offset, index_code, source)
  ELSE ckb_load_cell_data(tx, buflen, offset, index_code, source)

\* the while loop of load_and_hash
RECURSIVE load_and_hash_loop(_, _, _, _, _, _)
load_and_hash_loop(tx, f, index_code, source, offset, len) ==
  IF offset < len
    THEN LET r == Load(f, tx, ONE_BATCH_SIZE, offset, index_code, source)
             current_read == Min(r.len, ONE_BATCH_SIZE)
             rest == load_and_hash_loop(tx, f, index_code, source, offset + current_read, len)
         IN IF r.ret # CKB_SUCCESS THEN [ret |-> r.ret, out |-> <<>>]
            ELSE [ret |-> rest.ret, out |-> SubSeq(r.data, 1, current_read) \o rest.out]
    ELSE [ret |-> CKB_SUCCESS, out |-> <<>>]

\* load_and_hash without its while loop: the first batch only
load_and_hash_first_batch(tx, index_code, source, f) ==
  LET r == Load(f, tx, ONE_BATCH_SIZE, 0, index_code, source)
  IN IF r.ret # CKB_SUCCESS THEN [ret |-> r.ret, out |-> <<>>]
     ELSE [ret |-> CKB_SUCCESS, out |-> SubSeq(r.data, 1, Min(r.len, ONE_BATCH_SIZE))]

load_and_hash(tx, index_code, source, f) ==
  LET r == Load(f, tx, ONE_BATCH_SIZE, 0, index_code, source)
      offset == Min(r.len, ONE_BATCH_SIZE)
      rest == load_and_hash_loop(tx, f, index_code, source, offset, r.len)
  IN IF r.ret # CKB_SUCCESS THEN [ret |-> r.ret, out |-> <<>>]
     ELSE [ret |-> rest.ret, out |-> SubSeq(r.data, 1, offset) \o rest.out]

hash_cell_data(tx, index_code, source) == load_and_hash(tx, index_code, source, "data")

hash_cell(tx, index_code, source) == load_and_hash(tx, index_code, source, "cell")

hash_input(tx, index_code, source) == load_and_hash(tx, index_code, source, "input")

hash_script_fields(tx, index_code, source, fld, lock_masks) ==
  LET r == ckb_checked_load_cell_by_field(tx, SCRIPT_SIZE, 0, index_code, source, fld)
      script == r.data
  IN IF r.ret # CKB_SUCCESS THEN [ret |-> r.ret, out |-> <<>>]
     ELSE IF ~MolReader_Script_verify(script) THEN [ret |-> ERROR_ENCODING, out |-> <<>>]
     ELSE [ret |-> CKB_SUCCESS,
           out |-> (IF Bit(lock_masks, MASK_CELL_LOCK_CODE_HASH)
                      THEN SegBytes(script, MolReader_Script_get_code_hash(script)) ELSE <<>>)
                   \o (IF Bit(lock_masks, MASK_CELL_LOCK_ARGS)
                      THEN SegBytes(script, MolReader_Script_get_args(script)) ELSE <<>>)
                   \o (IF Bit(lock_masks, MASK_CELL_LOCK_HASH_TYPE)
                      THEN SegBytes(script, MolReader_Script_get_hash_type(script)) ELSE <<>>)]

\* a sequence of hashing steps, stopped by the first that fails: the bytes
\* absorbed before the failure stay absorbed
RECURSIVE Steps(_)
Steps(rs) ==
  IF rs = <<>> THEN [ret |-> CKB_SUCCESS, out |-> <<>>]
  ELSE IF Head(rs).ret # CKB_SUCCESS THEN Head(rs)
  ELSE LET rest == Steps(Tail(rs)) IN [ret |-> rest.ret, out |-> Head(rs).out \o rest.out]

Skip == [ret |-> CKB_SUCCESS, out |-> <<>>]

Absorb(r, n) == IF r.ret # CKB_SUCCESS THEN [ret |-> r.ret, out |-> <<>>] ELSE [ret |-> CKB_SUCCESS, out |-> SubSeq(r.data, 1, n)]

\* ------------------------------------------------------------------------
\* One coverage op (the switch of main's coverage loop)
\* ------------------------------------------------------------------------
\* case LABEL_SIGHASH_ALL
SighashAllOp(tx) ==
  LET r == ckb_load_tx_hash(tx, BLAKE2B_BLOCK_SIZE, 0)
  IN IF r.ret # CKB_SUCCESS THEN [ret |-> r.ret, out |-> <<>>]
     ELSE IF r.len # BLAKE2B_BLOCK_SIZE THEN [ret |-> ERROR_SYSCALL, out |-> <<>>]
     ELSE [ret |-> CKB_SUCCESS, out |-> r.data]

\* the selector with code_hash and hash_type exchanged
TypeLockMasksSwapped(mask) ==
  (IF Bit(mask, MASK_CELL_TYPE_CODE_HASH) THEN MASK_CELL_LOCK_HASH_TYPE ELSE 0)
  + (IF Bit(mask, MASK_CELL_TYPE_ARGS) THEN MASK_CELL_LOCK_ARGS ELSE 0)
  + (IF Bit(mask, MASK_CELL_TYPE_HASH_TYPE) THEN MASK_CELL_LOCK_CODE_HASH ELSE 0)

\* the type-script selector built from the cell mask
TypeLockMasks(mask) ==
  (IF Bit(mask, MASK_CELL_TYPE_CODE_HASH) THEN MASK_CELL_LOCK_CODE_HASH ELSE 0)
  + (IF Bit(mask, MASK_CELL_TYPE_ARGS) THEN MASK_CELL_LOCK_ARGS ELSE 0)
  + (IF Bit(mask, MASK_CELL_TYPE_HASH_TYPE) THEN MASK_CELL_LOCK_HASH_TYPE ELSE 0)

\* case LABEL_OUTPUT, LABEL_INPUT_CELL, LABEL_INPUT_CELL_SINCE
CellOp(tx, label, index_code, mask) ==
  LET source == IF label = LABEL_OUTPUT THEN CKB_SOURCE_OUTPUT ELSE CKB_SOURCE_INPUT
      fields ==
        IF mask = MASK_CELL_ALL
          THEN <<hash_cell(tx, index_code, source), hash_cell_data(tx, index_code, source)>>
          ELSE << IF Bit(mask, MASK_CELL_CAPACITY)
                    THEN Absorb(ckb_load_cell_by_field(tx, 8, 0, index_code, source, CKB_CELL_FIELD_CAPACITY), 8)
                    ELSE Skip,
                  IF \E b \in MASK_CELL_ANY_TYPE : Bit(mask, b)
                    THEN hash_script_fields(tx, index_code, source, CKB_CELL_FIELD_TYPE, TypeLockMasks(mask))
                    ELSE Skip,
                  IF \E b \in MASK_CELL_ANY_LOCK : Bit(mask, b)
                    THEN hash_script_fields(tx, index_code, source, CKB_CELL_FIELD_LOCK, mask)
                    ELSE Skip,
                  IF Bit(mask, MASK_CELL_DATA) THEN hash_cell_data(tx, index_code, source) ELSE Skip >>
      since ==
        IF label = LABEL_INPUT_CELL_SINCE
          THEN Absorb(ckb_checked_load_input_by_field(tx, 8, 0, index_code, source, CKB_INPUT_FIELD_SINCE), 8)
          ELSE Skip
  IN Steps(fields \o <<since>>)

\* What blake2b_update reads through index_seg, which is passed to
\* MolReader_OutPoint_get_tx_hash before it is assigned: 32 bytes at an
\* indeterminate address.  The outcomes kept: the address of the outpoint
\* buffer (the slot still holds tx_hash_seg), an address of zeroed memory,
\* an address outside the machine's memory.
UninitSegReads(tx, index_code) ==
  LET k == Resolve(tx, index_code, CKB_SOURCE_INPUT)
  IN { [fault |-> FALSE, bytes |-> IF k = 0 THEN Rep(0, 32) ELSE tx.inputs[k].tx_hash],
       [fault |-> FALSE, bytes |-> Rep(0, 32)],
       [fault |-> TRUE, bytes |-> <<>>] }

\* case LABEL_INPUT_OUTPOINT; g is the outcome of the read through index_seg
OutpointOp(tx, index_code, mask, g) ==
  IF mask = MASK_OUTPOINT_ALL THEN hash_input(tx, index_code, CKB_SOURCE_INPUT)
  ELSE LET op == ckb_checked_load_input_by_field(tx, INPUT_SIZE, 0, index_code, CKB_SOURCE_INPUT, CKB_INPUT_FIELD_OUT_POINT)
       IN Steps(<< IF Bit(mask, MASK_OUTPOINT_SINCE)
                     THEN Absorb(ckb_checked_load_input_by_field(tx, 8, 0, index_code, CKB_SOURCE_INPUT, CKB_INPUT_FIELD_SINCE), 8)
                     ELSE Skip,
                   IF op.ret # CKB_SUCCESS THEN [ret |-> op.ret, out |-> <<>>]
                   ELSE IF ~MolReader_OutPoint_verify(op.data) THEN [ret |-> ERROR_ENCODING, out |-> <<>>]
                   ELSE Skip,
                   IF Bit(mask, MASK_OUTPOINT_TX_HASH)
                     THEN [ret |-> CKB_SUCCESS, out |-> SegBytes(op.data, MolReader_OutPoint_get_tx_hash(op.data))]
                     ELSE Skip,
                   IF Bit(mask, MASK_OUTPOINT_INDEX)
                     THEN (IF g.fault THEN [ret |-> VM_MEMORY_FAULT, out |-> <<>>]
                           ELSE [ret |-> CKB_SUCCESS, out |-> g.bytes])
                     ELSE Skip >>)

\* whether the op reads through index_seg
ReadsUninit(label, mask) == label = LABEL_INPUT_OUTPOINT /\ mask # MASK_OUTPOINT_ALL /\ Bit(mask, MASK_OUTPOINT_INDEX)

NoRead == [fault |-> FALSE, bytes |-> <<>>]

\* the switch on label
ApplyOp(tx, label, index_code, mask, g) ==
  IF label = LABEL_SIGHASH_ALL THEN SighashAllOp(tx)
  ELSE IF label \in {LABEL_OUTPUT, LABEL_INPUT_CELL, LABEL_INPUT_CELL_SINCE} THEN CellOp(tx, label, index_code, mask)
  ELSE IF label = LABEL_INPUT_OUTPOINT THEN OutpointOp(tx, index_code, mask, g)
  ELSE IF label = LABEL_END_OF_LIST THEN Skip
  ELSE [ret |-> ERROR_INVALID_LABEL, out |-> <<>>]

\* ------------------------------------------------------------------------
\* Hash and signature primitives (blake2b.h, secp256k1_helper.h).
\* The 32-byte message digest stands for the absorbed stream itself (no two
\* streams share a digest).  A signature names its signer in byte 0 and a
\* one-bit tag of the signed message in byte 1: recovery against another
\* message yields an unrelated key.
\* ------------------------------------------------------------------------
MsgTag(message) == (Len(message) + SumBytes(message)) % 2

secp256k1_ecdsa_recoverable_signature_parse_compact(signature_bytes) ==
  signature_bytes[RECID_INDEX + 1] \in 0..3

secp256k1_ecdsa_recover(signature_bytes, message) ==
  [ok |-> signature_bytes[1] # 0,
   key |-> IF signature_bytes[2] = MsgTag(message) THEN signature_bytes[1]
           ELSE (signature_bytes[1] + 128) % 256]

secp256k1_ec_pubkey_serialize(key) == <<2>> \o Rep(key, PUBKEY_SIZE - 1)

\* blake2b of a serialized public key
PubkeyHash(pubkey) == Rep((3 * pubkey[2] + 1) % 256, BLAKE2B_BLOCK_SIZE)

\* ------------------------------------------------------------------------
\* State
\* ------------------------------------------------------------------------
VARIABLES
  txs,             \* the transactions verified, one invocation each, in turn
  kind,            \* how the transactions of txs are related
  cur,             \* the invocation running: txs[cur]
  pc,              \* position in main
  i,               \* main's loop counter
  ret,             \* main's return value, once pc = "done"
  ctx,             \* the bytes absorbed by blake2b_ctx so far
  witness,         \* the first witness_len bytes of the witness buffer
  witness_len,
  lock_bytes_seg,  \* [ptr, size] into the witness buffer
  tx_component,    \* the op last read: [off, label, index_code, mask]
  op_start,        \* Len(ctx) when that op was read
  signature_bytes,
  finalized,       \* blake2b_final was reached
  hist             \* the invocations completed: <<[ret, ctx, finalized, witness, ops]>>

vars == <<txs, kind, cur, pc, i, ret, ctx, witness, witness_len, lock_bytes_seg,
          tx_component, op_start, signature_bytes, finalized, hist>>

tx == txs[cur]

NoComponent == [off |-> -1, label |-> -1, index_code |-> 0, mask |-> 0]

NoSeg == [ptr |-> 0, size |-> 0]

\* bytes the runtime left in memory the program never wrote
GarbageBytes == {0, 112, 240}

\* the byte of the witness buffer at 0-based address a; g stands for a byte
\* the host did not write
BufByte(a, g) == IF a < Len(witness) THEN witness[a + 1] ELSE g

\* the values the three bytes at sighash_array[3 * n ..] can have
TxComponents(n) ==
  LET a == lock_bytes_seg.ptr + 3 * n
  IN { <<BufByte(a, g), BufByte(a + 1, g), BufByte(a + 2, g)>> :
         g \in IF a + 2 < Len(witness) THEN {0} ELSE GarbageBytes }

\* ------------------------------------------------------------------------
\* main
\* ------------------------------------------------------------------------
Return(code) ==
  /\ ret' = code
  /\ pc' = "done"

\* lines 157-186: load the first witness of the group, take its lock bytes,
\* start the blake2b session
LoadWitness ==
  /\ pc = "start"
  /\ LET r == ckb_load_witness(tx, WITNESS_SIZE, 0, 0, CKB_SOURCE_GROUP_INPUT)
         lock_seg == MolReader_WitnessArgs_get_lock(r.data)
         raw == MolReader_Bytes_raw_bytes(r.data, lock_seg)
     IN IF r.ret # CKB_SUCCESS
          THEN Return(ERROR_SYSCALL) /\ UNCHANGED <<witness, witness_len, lock_bytes_seg>>
        ELSE IF r.len > WITNESS_SIZE
          THEN Return(ERROR_WITNESS_SIZE) /\ witness' = r.data /\ witness_len' = r.len
               /\ UNCHANGED lock_bytes_seg
        ELSE IF ~MolReader_WitnessArgs_verify(r.data) \/ MolReader_BytesOpt_is_none(lock_seg)
          THEN Return(ERROR_ENCODING) /\ witness' = r.data /\ witness_len' = r.len
               /\ UNCHANGED lock_bytes_seg
        ELSE IF raw.size <= SIGNATURE_SIZE
          THEN Return(ERROR_ARGUMENTS_LEN) /\ witness' = r.data /\ witness_len' = r.len
               /\ lock_bytes_seg' = raw
        ELSE /\ witness' = r.data /\ witness_len' = r.len /\ lock_bytes_seg' = raw
             /\ pc' = "group_inputs"
             /\ UNCHANGED ret
  /\ i' = 0
  /\ ctx' = <<>>
  /\ UNCHANGED <<txs, kind, cur, tx_component, op_start, signature_bytes, finalized, hist>>

\* lines 187-196, one iteration: absorb group input i
HashGroupInput ==
  /\ pc = "group_inputs"
  /\ LET r == hash_input(tx, i, CKB_SOURCE_GROUP_INPUT)
     IN IF r.ret = CKB_INDEX_OUT_OF_BOUND
          THEN /\ pc' = "coverage" /\ i' = 0 /\ UNCHANGED <<ret, ctx>>
        ELSE IF r.ret # CKB_SUCCESS
          THEN /\ Return(r.ret) /\ ctx' = ctx \o r.out /\ UNCHANGED i
        ELSE /\ ctx' = ctx \o r.out /\ i' = i + 1 /\ UNCHANGED <<ret, pc>>
  /\ UNCHANGED <<txs, kind, cur, witness, witness_len, lock_bytes_seg, tx_component,
                 op_start, signature_bytes, finalized, hist>>

\* the loop's guard at line 203
CoverageInBounds(n, size) == ~(n + 3 > size)

\* lines 202-344, one iteration: read the op at sighash_array[3 * i] and
\* apply it
CoverageOp ==
  /\ pc = "coverage"
  /\ IF ~CoverageInBounds(i, lock_bytes_seg.size)
       THEN Return(ERROR_INVALID_LABEL) /\ UNCHANGED <<i, ctx, tx_component, op_start>>
       ELSE \E c \in TxComponents(i) :
              LET label == c[1] \div 16
                  index_code == (c[1] % 16) * 256 + c[2]
                  mask == c[3]
              IN \E g \in IF ReadsUninit(label, mask) THEN UninitSegReads(tx, index_code) ELSE {NoRead} :
                   LET r == ApplyOp(tx, label, index_code, mask, g)
                   IN /\ tx_component' = [off |-> 3 * i, label |-> label, index_code |-> index_code, mask |-> mask]
                      /\ op_start' = Len(ctx)
                      /\ i' = i + 1
                      /\ ctx' = ctx \o r.out
                      /\ IF r.ret # CKB_SUCCESS THEN Return(r.ret)
                         ELSE /\ pc' = IF label = LABEL_END_OF_LIST THEN "first_witness" ELSE "coverage"
                              /\ UNCHANGED ret
  /\ UNCHANGED <<txs, kind, cur, witness, witness_len, lock_bytes_seg, signature_bytes, finalized, hist>>

\* a memset over the whole of the lock bytes
ClearLockBytes(buf, at) ==
  LET seg == MolReader_Bytes_raw_bytes(buf, MolReader_WitnessArgs_get_lock(buf))
  IN [k \in 1..Len(buf) |-> IF k > seg.ptr /\ k <= seg.ptr + seg.size THEN 0 ELSE buf[k]]

\* the memset at lines 354-355 on the witness buffer
ClearSignature(buf, at) == [k \in 1..Len(buf) |-> IF k > at /\ k <= at + SIGNATURE_SIZE THEN 0 ELSE buf[k]]

\* the size test with the terminator counted among the signature bytes
LockSizeOkShort(size, sighash_array_length) == size = sighash_array_length - 3 + SIGNATURE_SIZE

\* the size test as a lower bound
LockSizeOkAtLeast(size, sighash_array_length) == size >= sighash_array_length + SIGNATURE_SIZE

\* the test at line 347
LockSizeOk(size, sighash_array_length) == size = sighash_array_length + SIGNATURE_SIZE

\* lines 346-357: the size equation, the signature taken out and zeroed, the
\* first witness absorbed
FirstWitness ==
  /\ pc = "first_witness"
  /\ LET sighash_array_length == i * 3
         at == lock_bytes_seg.ptr + sighash_array_length
     IN IF ~LockSizeOk(lock_bytes_seg.size, sighash_array_length)
          THEN Return(ERROR_ARGUMENTS_LEN) /\ UNCHANGED <<i, ctx, witness, signature_bytes>>
          ELSE /\ signature_bytes' = Slice(witness, at, SIGNATURE_SIZE)
               /\ witness' = ClearSignature(witness, at)
               /\ ctx' = ctx \o LE(witness_len, 8) \o SubSeq(witness', 1, witness_len)
               /\ i' = 1
               /\ pc' = "group_witnesses"
               /\ UNCHANGED ret
  /\ UNCHANGED <<txs, kind, cur, witness_len, lock_bytes_seg, tx_component, op_start, finalized, hist>>

\* one iteration of a witness loop (lines 362-377 and 380-395) on witness
\* `index` of `source`: [ret, out], ret = CKB_INDEX_OUT_OF_BOUND ends the loop
HashWitness(t, index, source) ==
  LET r == ckb_load_witness(t, WITNESS_SIZE, 0, index, source)
  IN IF r.ret = CKB_INDEX_OUT_OF_BOUND THEN [ret |-> CKB_INDEX_OUT_OF_BOUND, out |-> <<>>]
     ELSE IF r.ret # CKB_SUCCESS THEN [ret |-> ERROR_SYSCALL, out |-> <<>>]
     ELSE IF r.len > WITNESS_SIZE THEN [ret |-> ERROR_WITNESS_SIZE, out |-> <<>>]
     ELSE [ret |-> CKB_SUCCESS, out |-> LE(r.len, 8) \o r.data]

\* a loop over the witnesses past the inputs of the script group
OrphanStartGroup(t) == Len(GroupIdx(t))

\* line 379: where the loop over the witnesses past the inputs starts
OrphanStart(t) == ckb_calculate_inputs_len(t)

\* lines 361-379, one iteration: the other witnesses of the group
GroupWitness ==
  /\ pc = "group_witnesses"
  /\ LET r == HashWitness(tx, i, CKB_SOURCE_GROUP_INPUT)
     IN IF r.ret = CKB_INDEX_OUT_OF_BOUND
          THEN /\ pc' = "orphan_witnesses" /\ i' = OrphanStart(tx) /\ UNCHANGED <<ret, ctx>>
        ELSE IF r.ret # CKB_SUCCESS
          THEN /\ Return(r.ret) /\ UNCHANGED <<i, ctx>>
        ELSE /\ ctx' = ctx \o r.out /\ i' = i + 1 /\ UNCHANGED <<ret, pc>>
  /\ UNCHANGED <<txs, kind, cur, witness, witness_len, lock_bytes_seg, tx_component,
                 op_start, signature_bytes, finalized, hist>>

\* lines 380-395, one iteration: the witnesses past the inputs
OrphanWitness ==
  /\ pc = "orphan_witnesses"
  /\ LET r == HashWitness(tx, i, CKB_SOURCE_INPUT)
     IN IF r.ret = CKB_INDEX_OUT_OF_BOUND
          THEN /\ pc' = "verify" /\ UNCHANGED <<ret, ctx, i>>
        ELSE IF r.ret # CKB_SUCCESS
          THEN /\ Return(r.ret) /\ UNCHANGED <<i, ctx>>
        ELSE /\ ctx' = ctx \o r.out /\ i' = i + 1 /\ UNCHANGED <<ret, pc>>
  /\ UNCHANGED <<txs, kind, cur, witness, witness_len, lock_bytes_seg, tx_component,
                 op_start, signature_bytes, finalized, hist>>

\* lines 396-463 on the finished stream: the exit code
VerifyCode(t, sig, message) ==
  LET rec == secp256k1_ecdsa_recover(sig, message)
      temp == PubkeyHash(secp256k1_ec_pubkey_serialize(rec.key))
      r == ckb_load_script(t, SCRIPT_SIZE, 0)
      script == r.data
      args_seg == MolReader_Script_get_args(script)
      args_bytes_seg == MolReader_Bytes_raw_bytes(script, args_seg)
  IN IF ~secp256k1_ecdsa_recoverable_signature_parse_compact(sig) THEN ERROR_SECP_PARSE_SIGNATURE
     ELSE IF ~rec.ok THEN ERROR_SECP_RECOVER_PUBKEY
     ELSE IF r.ret # CKB_SUCCESS THEN ERROR_SYSCALL
     ELSE IF r.len > SCRIPT_SIZE THEN ERROR_SCRIPT_TOO_LONG
     ELSE IF ~MolReader_Script_verify(script) THEN ERROR_ENCODING
     ELSE IF args_bytes_seg.size # BLAKE160_SIZE THEN ERROR_ARGUMENTS_LEN
     ELSE IF SegBytes(script, args_bytes_seg) # SubSeq(temp, 1, BLAKE160_SIZE) THEN ERROR_PUBKEY_BLAKE160_HASH
     ELSE 0

\* lines 396-463: finalize the digest and check the signature against it
VerifySignature ==
  /\ pc = "verify"
  /\ finalized' = TRUE
  /\ Return(VerifyCode(tx, signature_bytes, ctx))
  /\ UNCHANGED <<txs, kind, cur, i, ctx, witness, witness_len, lock_bytes_seg, tx_component,
                 op_start, signature_bytes, hist>>

\* the host runs the script again, on the next transaction
NextInvocation ==
  /\ pc = "done"
  /\ cur < Len(txs)
  /\ hist' = Append(hist, [ret |-> ret, ctx |-> ctx, finalized |-> finalized, witness |-> witness])
  /\ cur' = cur + 1
  /\ pc' = "start"
  /\ i' = 0
  /\ ret' = 0
  /\ ctx' = <<>>
  /\ witness' = <<>>
  /\ witness_len' = 0
  /\ lock_bytes_seg' = NoSeg
  /\ tx_component' = NoComponent
  /\ op_start' = 0
  /\ signature_bytes' = <<>>
  /\ finalized' = FALSE
  /\ UNCHANGED <<txs, kind>>

Next ==
  \/ LoadWitness
  \/ HashGroupInput
  \/ CoverageOp
  \/ FirstWitness
  \/ GroupWitness
  \/ OrphanWitness
  \/ VerifySignature
  \/ NextInvocation

\* ------------------------------------------------------------------------
\* The transactions the host presents
\* ------------------------------------------------------------------------
MaxOps == 2
MaxOrphans == 2

\* the signer's key and the script argument that names it
SignerKey == 7
SignerArgs == SubSeq(PubkeyHash(secp256k1_ec_pubkey_serialize(SignerKey)), 1, BLAKE160_SIZE)

LockA == [code_hash |-> Rep(161, 32), hash_type |-> <<1>>, args |-> SignerArgs]
LockArgs32 == [code_hash |-> Rep(161, 32), hash_type |-> <<1>>, args |-> Rep(22, 32)]
LockTooLong == [code_hash |-> Rep(161, 32), hash_type |-> <<1>>, args |-> Rep(22, SCRIPT_SIZE)]
LockB == [code_hash |-> Rep(178, 32), hash_type |-> <<0>>, args |-> <<>>]
TypeT == [code_hash |-> Rep(195, 32), hash_type |-> <<2>>, args |-> <<9, 9>>]
TypeBig == [code_hash |-> Rep(196, 32), hash_type |-> <<1>>, args |-> Rep(5, SCRIPT_SIZE)]

\* a cell with a type script and data longer than one batch, a cell with
\* neither, a cell whose type script does not fit the script buffer
CellFull(lock, n) == [capacity |-> LE(1000 + n, 8), lock |-> lock, type |-> TypeT, data |-> [k \in 1..(ONE_BATCH_SIZE + 5) |-> k]]
CellBare(lock, n) == [capacity |-> LE(500 + n, 8), lock |-> lock, type |-> NoScript, data |-> <<>>]
CellBig(lock, n) == [capacity |-> LE(300 + n, 8), lock |-> lock, type |-> TypeBig, data |-> <<4>>]

In(n, cell) == [since |-> LE(n, 8), tx_hash |-> Rep(208 + n, 32), index |-> LE(n, 4), cell |-> cell]

\* coverage ops
Op(label, index, mask) == <<label * 16 + (index \div 256), index % 256, mask>>
END_OF_LIST == Op(LABEL_END_OF_LIST, 0, 0)

\* signatures: signer, message tag, filling bytes, recovery id
Sig(key, tag, fill, recid) == <<key, tag>> \o Rep(fill, SIGNATURE_SIZE - 3) \o <<recid>>

\* the first witness of the group: WitnessArgs with the lock bytes, an
\* input_type of two zero bytes and no output_type
FirstWitnessOf(lock) == SerWitnessArgs(MolBytes(lock), MolBytes(<<0, 0>>), <<>>)

\* a transaction of three inputs (0 and 2 in the script group) and the first
\* `nout` of three outputs
MkTxW(script, witnesses, nout) ==
  [ inputs |-> <<In(1, CellFull(script, 1)), In(2, CellBare(LockB, 2)), In(3, CellBig(script, 3))>>,
    outputs |-> SubSeq(<<CellFull(LockB, 4), CellBare(LockB, 5), CellBig(LockA, 6)>>, 1, nout),
    witnesses |-> witnesses,
    tx_hash |-> Rep(77, 32),
    script |-> script ]

\* one witness per input, then `orphans` witnesses past the inputs
MkTx(script, lock, nout, orphans) ==
  MkTxW(script, <<FirstWitnessOf(lock), <<>>, <<8, 8, 8>>>> \o [k \in 1..orphans |-> <<6, k>>], nout)

\* coverage arrays: every sequence of at most n ops of `pool`
RECURSIVE OpSeqs(_, _)
OpSeqs(pool, n) ==
  IF n = 0 THEN {<<>>}
  ELSE LET shorter == OpSeqs(pool, n - 1)
       IN shorter \cup {Append(q, o) : q \in {x \in shorter : Len(x) = n - 1}, o \in pool}

OpPool ==
  { Op(LABEL_SIGHASH_ALL, 0, 0),
    Op(LABEL_INPUT_OUTPOINT, 1, 3),
    Op(LABEL_INPUT_CELL_SINCE, 2, 33),
    Op(7, 0, 0),
    Op(LABEL_OUTPUT, 9, 1) }

\* with and without the terminator
Coverages == { Flatten(q) \o t : q \in OpSeqs(OpPool, MaxOps), t \in {END_OF_LIST, <<>>} }

GoodSig == Sig(SignerKey, 0, 80, 1)

Signatures ==
  { GoodSig, Sig(SignerKey, 1, 80, 1),   \* the signer's, for either message tag
    Sig(SignerKey, 0, 240, 0),           \* bytes that read as END_OF_LIST
    Sig(247, 0, 80, 1),                  \* a first byte that reads as END_OF_LIST
    Sig(33, 0, 80, 1),                   \* another key
    Sig(SignerKey, 0, 80, 9),            \* a recovery id out of range
    Rep(0, SIGNATURE_SIZE) }             \* all zero

\* one invocation: coverage arrays of the pool, signatures, and lock bytes
\* one byte longer or shorter than the size equation asks
General ==
  { <<MkTx(LockA, c \o sg, 3, 1)>> : c \in Coverages, sg \in Signatures }
  \cup { <<MkTx(LockA, c \o GoodSig \o <<0>>, 3, 0)>> : c \in Coverages }
  \cup { <<MkTx(LockA, c \o SubSeq(GoodSig, 1, SIGNATURE_SIZE - 1), 3, 0)>> : c \in Coverages }

\* one invocation with one cell op: every label, cell and mask
CellMasks ==
  { <<MkTx(LockA, Op(l, ix, m) \o END_OF_LIST \o GoodSig, 3, 0)>> :
      l \in {LABEL_OUTPUT, LABEL_INPUT_CELL, LABEL_INPUT_CELL_SINCE}, ix \in 0..2, m \in 0..255 }

\* one invocation with one outpoint op: every mask
OutpointMasks ==
  { <<MkTx(LockA, Op(LABEL_INPUT_OUTPOINT, ix, m) \o END_OF_LIST \o GoodSig, 3, 0)>> :
      ix \in {0, 1}, m \in (0..15) \cup {255} }

\* one invocation each: witnesses and scripts that stop the verifier early
Oversize == SerWitnessArgs(MolBytes(END_OF_LIST \o GoodSig), MolBytes(Rep(1, WITNESS_SIZE)), <<>>)
Misc ==
  { <<MkTxW(LockA, <<>>, 1)>>,                                        \* no witness
    <<MkTxW(LockA, <<Oversize>>, 1)>>,                                \* larger than the buffer
    <<MkTxW(LockA, <<<<1, 2, 3>>>>, 1)>>,                             \* not a WitnessArgs
    <<MkTxW(LockA, <<SerWitnessArgs(<<>>, <<>>, <<>>)>>, 1)>>,        \* no lock
    <<MkTxW(LockA, <<FirstWitnessOf(END_OF_LIST \o GoodSig), <<>>, Oversize>>, 1)>>,
    <<MkTxW(LockA, <<FirstWitnessOf(END_OF_LIST \o GoodSig), <<>>, <<>>, Oversize>>, 1)>>,
    <<MkTx(LockArgs32, END_OF_LIST \o GoodSig, 1, 0)>>,
    <<MkTx(LockTooLong, END_OF_LIST \o GoodSig, 1, 0)>> }

\* --- two invocations ---

\* the same transaction twice
SameTxs ==
  { <<MkTx(LockA, c \o END_OF_LIST \o GoodSig, 3, 0), MkTx(LockA, c \o END_OF_LIST \o GoodSig, 3, 0)>> :
      c \in { <<>>, Op(LABEL_SIGHASH_ALL, 0, 0), Op(LABEL_OUTPUT, 1, 255),
              Op(LABEL_INPUT_OUTPOINT, 1, 2), Op(LABEL_INPUT_OUTPOINT, 1, 255) } }
  \cup { <<MkTx(LockA, Op(LABEL_SIGHASH_ALL, 0, 0) \o Rep(0, SIGNATURE_SIZE), 3, 0),
           MkTx(LockA, Op(LABEL_SIGHASH_ALL, 0, 0) \o Rep(0, SIGNATURE_SIZE), 3, 0)>> }

\* two transactions that differ in the 65 signature bytes only
SigPairs ==
  { <<MkTx(LockA, c \o END_OF_LIST \o s1, 3, 1), MkTx(LockA, c \o END_OF_LIST \o s2, 3, 1)>> :
      c \in { Flatten(q) : q \in OpSeqs({Op(LABEL_SIGHASH_ALL, 0, 0), Op(LABEL_OUTPUT, 0, 255),
                                         Op(LABEL_INPUT_OUTPOINT, 1, 3)}, MaxOps) },
      s1 \in {GoodSig}, s2 \in Signatures \ {GoodSig} }

\* a third party appends an output, and an input outside the script group,
\* with or without a witness for it at the input's index
Extend(t, with_witness) ==
  [ t EXCEPT !.outputs = Append(@, CellBare(LockB, 7)),
             !.inputs = Append(@, In(4, CellFull(LockB, 8))),
             !.witnesses = IF with_witness
                             THEN SubSeq(@, 1, Len(t.inputs)) \o <<<<5, 5>>>> \o SubSeq(@, Len(t.inputs) + 1, Len(@))
                             ELSE @ ]

S3Coverage == Op(LABEL_OUTPUT, 0, 255) \o END_OF_LIST

ExtendPairs ==
  { <<MkTx(LockA, S3Coverage \o sg, 1, n), Extend(MkTx(LockA, S3Coverage \o sg, 1, n), w)>> :
      sg \in {GoodSig, Sig(SignerKey, 1, 80, 1)}, n \in 0..MaxOrphans, w \in BOOLEAN }

\* the same ops in another order
PermPool ==
  { Op(LABEL_OUTPUT, 0, 0), Op(LABEL_OUTPUT, 1, 0), Op(LABEL_SIGHASH_ALL, 0, 0), Op(LABEL_SIGHASH_ALL, 5, 1),
    Op(LABEL_OUTPUT, 0, 1), Op(LABEL_INPUT_CELL, 1, 1), Op(LABEL_INPUT_OUTPOINT, 1, 3), Op(LABEL_OUTPUT, 9, 1) }

PermPairs ==
  { <<MkTx(LockA, a \o b \o END_OF_LIST \o GoodSig, 3, 0), MkTx(LockA, b \o a \o END_OF_LIST \o GoodSig, 3, 0)>> :
      <<a, b>> \in {x \in PermPool \X PermPool : x[1] # x[2]} }
  \cup { <<MkTx(LockA, a \o b \o c \o END_OF_LIST \o GoodSig, 3, 0), MkTx(LockA, c \o a \o b \o END_OF_LIST \o GoodSig, 3, 0)>> :
      a \in {Op(LABEL_OUTPUT, 0, 0)}, b \in {Op(LABEL_OUTPUT, 1, 0), Op(LABEL_OUTPUT, 0, 1)}, c \in {Op(LABEL_SIGHASH_ALL, 0, 0), Op(LABEL_OUTPUT, 2, 0)} }

\* two transactions whose input 1 (outside the script group) differs in
\* the index of its outpoint only
WithOutpointIndex(t, n) == [ t EXCEPT !.inputs[2].index = LE(n, 4) ]

OutpointIndexPairs ==
  { <<MkTx(LockA, Op(LABEL_INPUT_OUTPOINT, 1, m) \o END_OF_LIST \o GoodSig, 3, 0),
      WithOutpointIndex(MkTx(LockA, Op(LABEL_INPUT_OUTPOINT, 1, m) \o END_OF_LIST \o GoodSig, 3, 0), 9)>> :
      m \in {2, 3, 6, 7, 255} }

Scenarios ==
  { [kind |-> "single", txs |-> t] : t \in General \cup CellMasks \cup OutpointMasks \cup Misc }
  \cup { [kind |-> "same", txs |-> t] : t \in SameTxs }
  \cup { [kind |-> "sig", txs |-> t] : t \in SigPairs }
  \cup { [kind |-> "extend", txs |-> t] : t \in ExtendPairs }
  \cup { [kind |-> "perm", txs |-> t] : t \in PermPairs }
  \cup { [kind |-> "opidx", txs |-> t] : t \in OutpointIndexPairs }

Init ==
  /\ \E sc \in Scenarios : txs = sc.txs /\ kind = sc.kind
  /\ cur = 1
  /\ pc = "start"
  /\ i = 0
  /\ ret = 0
  /\ ctx = <<>>
  /\ witness = <<>>
  /\ witness_len = 0
  /\ lock_bytes_seg = NoSeg
  /\ tx_component = NoComponent
  /\ op_start = 0
  /\ signature_bytes = <<>>
  /\ finalized = FALSE
  /\ hist = <<>>

Spec == Init /\ [][Next]_vars

\* ------------------------------------------------------------------------
\* Properties
\* ------------------------------------------------------------------------
\* the lock bytes of the first witness of the group, as the host holds them
LockBytesOf(t) ==
  LET w == t.witnesses[GroupIdx(t)[1]]
  IN SegBytes(w, MolReader_Bytes_raw_bytes(w, MolReader_WitnessArgs_get_lock(w)))

\* the serialized inputs of the script group, in index order
GroupInputBytes(t) == Flatten([k \in 1..Len(GroupIdx(t)) |-> SerCellInput(t.inputs[GroupIdx(t)[k]])])

\* the run is past the loop over the group inputs
PastGroupInputs ==
  \/ pc \in {"coverage", "first_witness", "group_witnesses", "orphan_witnesses", "verify"}
  \/ pc = "done" /\ (tx_component # NoComponent \/ finalized)

\* the bytes absorbed since the op in tx_component was read
OpBytes == SubSeq(ctx, op_start + 1, Len(ctx))

\* the second of two invocations has ended
BothDone == Len(txs) = 2 /\ cur = 2 /\ pc = "done"

\* C1: once the run reads coverage ops, and whenever it returns 0, the
\* absorbed stream begins with the serialized inputs of the script group in
\* index order; no op's bytes come before the last of them.
C1_GroupInputPrefix ==
  /\ PastGroupInputs => IsPrefix(GroupInputBytes(tx), ctx)
  /\ (pc = "coverage" /\ i = 0) => ctx = GroupInputBytes(tx)
  /\ tx_component # NoComponent => op_start >= Len(GroupInputBytes(tx))
  /\ (pc = "done" /\ finalized /\ ret = 0) => IsPrefix(GroupInputBytes(tx), ctx)

C1_Witness ==
  /\ pc = "done" /\ finalized /\ ret = 0
  /\ Len(GroupIdx(tx)) = 2
  /\ op_start > Len(GroupInputBytes(tx))

\* --- C2 ---
OpLabelAt(lock, k) == lock[3 * k + 1] \div 16

\* no op wholly inside the first size - 65 bytes is END_OF_LIST
NoTerminatorInCoverage(lock) ==
  \A k \in 0..Len(lock) : 3 * k + 3 <= Len(lock) - SIGNATURE_SIZE => OpLabelAt(lock, k) # LABEL_END_OF_LIST

\* the op in tx_component is not wholly inside the first size - 65 bytes
PastCoverage == tx_component.off + 3 > lock_bytes_seg.size - SIGNATURE_SIZE

\* the run ended, it read ops, the coverage region holds no terminator and
\* no op of that region failed with a host error
C2_Pre ==
  /\ pc = "done"
  /\ tx_component # NoComponent
  /\ NoTerminatorInCoverage(LockBytesOf(tx))
  /\ (PastCoverage \/ ret = ERROR_INVALID_LABEL)

OpErrors == {CKB_INDEX_OUT_OF_BOUND, CKB_ITEM_MISSING, CKB_LENGTH_NOT_ENOUGH, ERROR_ENCODING, ERROR_SYSCALL, VM_MEMORY_FAULT}

\* C2 as stated: without a terminator in the coverage region the verifier
\* fails with INVALID_LABEL, whatever the signature bytes hold.
C2_TerminatorRequired_Original ==
  (C2_Pre /\ (lock_bytes_seg.size - SIGNATURE_SIZE) % 3 = 0) => ret = ERROR_INVALID_LABEL

\* C2, amended: without a terminator in the coverage region the verifier never
\* returns 0; it fails with INVALID_LABEL, or, when the 3-byte groups it goes
\* on to read from the signature bytes and past them hold an END_OF_LIST
\* label, with ARGUMENTS_LEN, or with the error of an op read from them.
C2_TerminatorRequired ==
  C2_Pre =>
    /\ ret # 0
    /\ \/ ret = ERROR_INVALID_LABEL
       \/ PastCoverage /\ tx_component.label = LABEL_END_OF_LIST /\ ret = ERROR_ARGUMENTS_LEN
       \/ PastCoverage /\ tx_component.label \in 0..4 /\ ret \in OpErrors

C2_Witness == C2_Pre /\ ret = ERROR_ARGUMENTS_LEN /\ tx_component.label = LABEL_END_OF_LIST

\* --- C3 ---
\* the index of the first END_OF_LIST op wholly inside the lock bytes, -1 if none
RECURSIVE FirstTerminatorFrom(_, _)
FirstTerminatorFrom(lock, k) ==
  IF 3 * k + 3 > Len(lock) THEN -1
  ELSE IF OpLabelAt(lock, k) = LABEL_END_OF_LIST THEN k
  ELSE FirstTerminatorFrom(lock, k + 1)

FirstTerminator(lock) == FirstTerminatorFrom(lock, 0)

\* the lock bytes hold a terminator that is not followed by exactly 65 bytes
BadTail(lock) ==
  /\ FirstTerminator(lock) >= 0
  /\ Len(lock) # 3 * (FirstTerminator(lock) + 1) + SIGNATURE_SIZE

\* the run took the lock bytes out of the witness
HasLock == lock_bytes_seg # NoSeg

\* a run that returned 0 consumed (size - 65) / 3 ops, the last an END_OF_LIST
SizeEquation ==
  (pc = "done" /\ finalized /\ ret = 0) =>
    /\ tx_component.label = LABEL_END_OF_LIST
    /\ lock_bytes_seg.size = 3 * (tx_component.off \div 3 + 1) + SIGNATURE_SIZE

\* C3 as stated: success implies the size equation, and lock bytes whose
\* END_OF_LIST is followed by fewer or more than 65 bytes fail with
\* ARGUMENTS_LEN.
C3_SizeEquation_Original ==
  /\ SizeEquation
  /\ (pc = "done" /\ HasLock /\ BadTail(LockBytesOf(tx))) => ret = ERROR_ARGUMENTS_LEN

\* C3, amended: success implies the size equation; lock bytes whose
\* END_OF_LIST is followed by fewer or more than 65 bytes never yield success,
\* and fail with ARGUMENTS_LEN when the interpreter reaches that
\* END_OF_LIST or the lock bytes are no longer than 65 bytes (an earlier
\* failing op or load gives its own error).
C3_SizeEquation ==
  /\ SizeEquation
  /\ (pc = "done" /\ HasLock /\ BadTail(LockBytesOf(tx))) =>
       /\ ~(finalized /\ ret = 0)
       /\ ( \/ lock_bytes_seg.size <= SIGNATURE_SIZE
            \/ /\ tx_component.label = LABEL_END_OF_LIST
               /\ tx_component.off = 3 * FirstTerminator(LockBytesOf(tx)) )
          => ret = ERROR_ARGUMENTS_LEN

C3_Witness ==
  /\ pc = "done" /\ HasLock /\ BadTail(LockBytesOf(tx))
  /\ lock_bytes_seg.size > SIGNATURE_SIZE
  /\ tx_component.label = LABEL_END_OF_LIST
  /\ tx_component.off = 3 * FirstTerminator(LockBytesOf(tx))
  /\ tx_component.off > 0
  /\ ret = ERROR_ARGUMENTS_LEN

\* --- C4 ---
\* C4: two transactions that differ in the 65 signature bytes only and both
\* reach the end of the digest absorb the same stream: the first witness
\* enters it with its length unchanged and the 65 bytes zeroed.
C4_SelfCommitment ==
  (kind = "sig" /\ BothDone /\ finalized /\ hist[1].finalized) =>
    /\ ctx = hist[1].ctx
    /\ witness = hist[1].witness
    /\ Len(witness) = Len(txs[cur].witnesses[1])

\* the same, for coverage arrays without an INPUT_OUTPOINT op that selects the
\* outpoint index
NoUninitRead(lock) ==
  \A k \in 0..Len(lock) : 3 * k + 3 <= Len(lock) - SIGNATURE_SIZE => ~ReadsUninit(OpLabelAt(lock, k), lock[3 * k + 3])

SelfCommitmentWithoutOutpointIndex ==
  (kind = "sig" /\ BothDone /\ finalized /\ hist[1].finalized /\ NoUninitRead(LockBytesOf(txs[1]))) =>
    /\ ctx = hist[1].ctx
    /\ witness = hist[1].witness
    /\ Len(witness) = Len(txs[cur].witnesses[1])
    /\ SubSeq(witness, lock_bytes_seg.ptr + lock_bytes_seg.size - SIGNATURE_SIZE + 1, lock_bytes_seg.ptr + lock_bytes_seg.size) = Rep(0, SIGNATURE_SIZE)

\* --- C5 ---
HasOrphans(t) == Len(t.witnesses) > Len(t.inputs)

ExtendedRun == kind = "extend" /\ BothDone /\ hist[1].finalized /\ hist[1].ret = 0

\* C5 as stated: with coverage [OUTPUT(0, 0xFF), END_OF_LIST], a transaction
\* that verifies still verifies, with the same digest, after an output and an
\* input outside the script group are appended.
C5_OpenExtension_Original == ExtendedRun => ctx = hist[1].ctx /\ ret = 0

\* C5, amended: ... provided the transaction holds no witness past its
\* inputs, or the new input's witness is inserted at the new input's index;
\* if it holds such witnesses and the witness list is left as it is, the
\* first of them becomes the new input's witness, leaves the absorbed tail,
\* and the digest changes.
C5_OpenExtension ==
  ExtendedRun =>
    IF ~HasOrphans(txs[1]) \/ Len(txs[2].witnesses) > Len(txs[1].witnesses)
      THEN ctx = hist[1].ctx /\ finalized /\ ret = 0
      ELSE ctx # hist[1].ctx

C5_Witness == ExtendedRun /\ finalized /\ ret = 0 /\ Len(txs[2].witnesses) > Len(txs[1].witnesses)

CellBits == {MASK_CELL_CAPACITY, MASK_CELL_TYPE_CODE_HASH, MASK_CELL_TYPE_ARGS, MASK_CELL_TYPE_HASH_TYPE,
             MASK_CELL_LOCK_CODE_HASH, MASK_CELL_LOCK_ARGS, MASK_CELL_LOCK_HASH_TYPE, MASK_CELL_DATA}

\* the cell an op refers to
OpCell(t, label, index_code) ==
  IF label = LABEL_OUTPUT THEN t.outputs[index_code + 1] ELSE t.inputs[index_code + 1].cell

OpCellExists(t, label, index_code) ==
  IF label = LABEL_OUTPUT THEN index_code < Len(t.outputs) ELSE index_code < Len(t.inputs)

\* the subfield a mask bit names, empty when the cell has no such subfield
Subfield(c, b) ==
  IF b = MASK_CELL_CAPACITY THEN c.capacity
  ELSE IF b = MASK_CELL_DATA THEN c.data
  ELSE IF b \in MASK_CELL_ANY_TYPE /\ c.type = NoScript THEN <<>>
  ELSE IF b = MASK_CELL_TYPE_CODE_HASH THEN c.type.code_hash
  ELSE IF b = MASK_CELL_TYPE_ARGS THEN c.type.args
  ELSE IF b = MASK_CELL_TYPE_HASH_TYPE THEN c.type.hash_type
  ELSE IF b = MASK_CELL_LOCK_CODE_HASH THEN c.lock.code_hash
  ELSE IF b = MASK_CELL_LOCK_ARGS THEN c.lock.args
  ELSE c.lock.hash_type

\* the bytes a mask bit contributes: args come as serialized Bytes, with
\* their 4-byte length
Selected(c, b) ==
  IF b \in {MASK_CELL_TYPE_ARGS, MASK_CELL_LOCK_ARGS} /\ ~(b = MASK_CELL_TYPE_ARGS /\ c.type = NoScript)
    THEN MolBytes(Subfield(c, b))
    ELSE Subfield(c, b)

\* the bytes of the subfields whose bits are set, lowest bit first
SelectedByMask(c, mask) ==
  Flatten([k \in 1..8 |-> IF Bit(mask, 2 ^ (k - 1)) THEN Selected(c, 2 ^ (k - 1)) ELSE <<>>])

\* the run has just applied a cell op to a cell of the transaction
AtCellOp ==
  /\ tx_component.label \in {LABEL_OUTPUT, LABEL_INPUT_CELL, LABEL_INPUT_CELL_SINCE}
  /\ pc \in {"coverage", "done"}
  /\ ~finalized
  /\ OpCellExists(tx, tx_component.label, tx_component.index_code)

\* C7 as stated: toggling a mask bit changes the absorbed bytes iff the
\* subfield it names is not empty, toggles to and from 0xFF and cells
\* without a type script included.
C7_MaskBitMapping_Original ==
  AtCellOp =>
    \A b \in CellBits :
      LET l == tx_component.label
          ix == tx_component.index_code
          m == tx_component.mask
      IN (CellOp(tx, l, ix, Toggle(m, b)).out # OpBytes) <=> (Subfield(OpCell(tx, l, ix), b) # <<>>)

\* C7, amended: for a mask other than 0xFF an op that succeeds absorbs, lowest
\* bit first, exactly the bytes its bits select (capacity 8 bytes, code_hash
\* 32, hash_type 1, args as serialized Bytes with their 4-byte length, data),
\* so that a toggle between two such masks changes the absorbed bytes iff the
\* selected bytes are not empty, which only data can be; a toggle to or from
\* 0xFF always changes them; and a type bit on a cell without a type script
\* makes the verifier fail with the host's ITEM_MISSING.
C7_MaskBitMapping ==
  AtCellOp =>
    LET l == tx_component.label
        ix == tx_component.index_code
        m == tx_component.mask
        c == OpCell(tx, l, ix)
        r == CellOp(tx, l, ix, m)
        since == IF l = LABEL_INPUT_CELL_SINCE THEN tx.inputs[ix + 1].since ELSE <<>>
    IN /\ r.out = OpBytes
       /\ (m # MASK_CELL_ALL /\ r.ret = CKB_SUCCESS) => OpBytes = SelectedByMask(c, m) \o since
       /\ (m # MASK_CELL_ALL /\ c.type = NoScript /\ \E b \in MASK_CELL_ANY_TYPE : Bit(m, b)) => r.ret = CKB_ITEM_MISSING
       /\ \A b \in CellBits :
            LET r2 == CellOp(tx, l, ix, Toggle(m, b))
            IN IF m = MASK_CELL_ALL \/ Toggle(m, b) = MASK_CELL_ALL
                 THEN r2.out # r.out
                 ELSE (r.ret = CKB_SUCCESS /\ r2.ret = CKB_SUCCESS) => ((r2.out # r.out) <=> (Selected(c, b) # <<>>))

\* a toggle of the data bit on a cell without data: nothing changes
C7_Witness ==
  /\ AtCellOp
  /\ tx_component.mask = MASK_CELL_CAPACITY + MASK_CELL_LOCK_ARGS
  /\ OpCell(tx, tx_component.label, tx_component.index_code).data = <<>>
  /\ CellOp(tx, tx_component.label, tx_component.index_code, Toggle(tx_component.mask, MASK_CELL_DATA)).out = OpBytes
  /\ Len(OpBytes) = 12

\* --- C8 ---
\* C8: two invocations on the same transaction absorb the same stream and
\* return the same exit code.
C8_Determinism == (kind = "same" /\ BothDone) => (ret = hist[1].ret /\ ctx = hist[1].ctx)

\* --- C9 ---
\* what an INPUT_OUTPOINT op with a mask other than 0xFF is to absorb
OutpointSelected(in, mask) ==
  (IF Bit(mask, MASK_OUTPOINT_SINCE) THEN in.since ELSE <<>>)
  \o (IF Bit(mask, MASK_OUTPOINT_TX_HASH) THEN in.tx_hash ELSE <<>>)
  \o (IF Bit(mask, MASK_OUTPOINT_INDEX) THEN in.index ELSE <<>>)

C10_ReadsInsideLockBytes ==
  tx_component # NoComponent => tx_component.off + 3 <= lock_bytes_seg.size


=============================================================================
